---- MODULE Spec2Model ----
(***************************************************************************)
(* Model of src/main.rs: a command-line program that parses one positional *)
(* argument `message` (clap derive), loads the standard FIGlet font,       *)
(* converts the message into a figure and prints it.                       *)
(*                                                                         *)
(* The two libraries are outside the repository.  clap is modelled by the  *)
(* behaviour the derive on FigletCtl asks of it (one required positional,  *)
(* the generated -h/--help flag, `--` as the end of the flags).  What      *)
(* figlet_rs answers is not visible in main.rs: whether the standard font  *)
(* loads and which messages it converts are fixed by the build and are     *)
(* chosen, once, in Init.                                                  *)
(***************************************************************************)
EXTENDS Integers, Sequences, FiniteSets, TLC

\* ------------------------------------------------------------------ bounds
\* The longest command line (arguments after the program name).
MaxArgs == 2

\* ------------------------------------------------------------- option type
None == [some |-> FALSE]
Some(x) == [some |-> TRUE, val |-> x]

\* --------------------------------------------------------- command lines
\* An argument is a sequence of characters.
Empty == <<>>
HI == <<"H", "I">>
DashH == <<"-", "h">>
DashX == <<"-", "x">>
DashDash == <<"-", "-">>
LongHelp == <<"-", "-", "h", "e", "l", "p">>

Tokens == {Empty, HI, DashH, DashX, DashDash}

Argvs == UNION {[1..n -> Tokens] : n \in 0..MaxArgs}

\* Every argument can reach the renderer as the message (after `--`).
Messages == Tokens

\* ------------------------------------------------------------ exit codes
ExitSuccess == 0
ExitUsage == 2
ExitPanic == 101
Running == -1

\* --------------------------------------------------------------- outputs
\* A chunk written to an output stream: the block Display writes for the
\* figure of message m, or plain text.
Figure(m) == [kind |-> "figure", of |-> m]
Text(t) == [kind |-> "text", of |-> t]
Newline == Text(<<"\n">>)
HelpText == Text(<<"h", "e", "l", "p">>)
UsageError == Text(<<"u", "s", "a", "g", "e">>)
PanicMessage == Text(<<"p", "a", "n", "i", "c">>)

IsFigure(chunk) == chunk.kind = "figure"

\* ------------------------------------------------------- FigletCtl::parse
IsFlag(t) == Len(t) > 1 /\ t[1] = "-"

HelpFlags == {DashH, LongHelp}

ParseOk(m) == [kind |-> "Ok", message |-> m]
ParseHelp == [kind |-> "Help", message |-> Empty]
ParseError == [kind |-> "Error", message |-> Empty]

RECURSIVE ParseFrom(_, _, _, _)
ParseFrom(a, i, trailing, msg) ==
    IF i > Len(a)
    THEN IF msg.some THEN ParseOk(msg.val) ELSE ParseError
    ELSE IF ~trailing /\ a[i] = DashDash
    THEN ParseFrom(a, i + 1, TRUE, msg)
    ELSE IF ~trailing /\ IsFlag(a[i])
    THEN IF a[i] \in HelpFlags THEN ParseHelp ELSE ParseError
    ELSE IF msg.some
    THEN ParseError
    ELSE ParseFrom(a, i + 1, trailing, Some(a[i]))

\* parse as it would be were `message` optional with an empty default.
parseOptional(a) ==
    IF a = <<>> THEN ParseOk(Empty) ELSE ParseFrom(a, 1, FALSE, None)

\* parse as it would be were the message cut to its first character.
parseTruncated(a) ==
    LET r == ParseFrom(a, 1, FALSE, None) IN
      IF r.kind = "Ok" /\ Len(r.message) > 1
      THEN ParseOk(SubSeq(r.message, 1, 1))
      ELSE r

parse(a) == ParseFrom(a, 1, FALSE, None)

\* ------------------------------------------------------------------ state
VARIABLES
    fontLoads,      \* the build: FIGfont::standard() returns Ok
    convertible,    \* the build: the messages convert() returns a figure for
    argv,           \* the command line of the running process
    pc,             \* the statement main is at
    args,           \* `args`: the parsed FigletCtl
    standard_font,  \* `standard_font`
    figure,         \* `figure`: what convert returned
    stdout,         \* standard output of the process, in chunks
    stderr,         \* standard error of the process, in chunks
    exit_code,      \* exit status, Running while the process lives
    calls,          \* the library calls and prints made by this process
    prev            \* outcome of the run before, when it had this command line

vars == <<fontLoads, convertible, argv, pc, args, standard_font, figure,
          stdout, stderr, exit_code, calls, prev>>

build == <<fontLoads, convertible>>

Call(op, arg) == [op |-> op, arg |-> arg]

\* line 9: fn main() is entered by a new process: nothing parsed, loaded,
\* rendered or written yet.
main(a) ==
    [argv |-> a, pc |-> "parse", args |-> None, standard_font |-> None,
     figure |-> None, stdout |-> <<>>, stderr |-> <<>>, exit_code |-> Running,
     calls |-> <<>>]

Init ==
    /\ fontLoads \in BOOLEAN
    /\ convertible \in SUBSET Messages
    /\ prev = None
    /\ \E a \in Argvs :
         /\ argv = main(a).argv
         /\ pc = main(a).pc
         /\ args = main(a).args
         /\ standard_font = main(a).standard_font
         /\ figure = main(a).figure
         /\ stdout = main(a).stdout
         /\ stderr = main(a).stderr
         /\ exit_code = main(a).exit_code
         /\ calls = main(a).calls

\* A panic from unwrap(): the message goes to standard error, the process
\* ends with status 101, nothing is written to standard output.
Panic ==
    /\ stderr' = Append(stderr, PanicMessage)
    /\ exit_code' = ExitPanic
    /\ pc' = "exited"
    /\ UNCHANGED stdout

\* line 10: let args = FigletCtl::parse();
Parse ==
    /\ pc = "parse"
    /\ calls' = Append(calls, Call("parse", argv))
    /\ LET r == parse(argv) IN
         CASE r.kind = "Ok" ->
                /\ args' = Some([message |-> r.message])
                /\ pc' = "standard"
                /\ UNCHANGED <<stdout, stderr, exit_code>>
           [] r.kind = "Help" ->
                /\ stdout' = Append(stdout, HelpText)
                /\ exit_code' = ExitSuccess
                /\ pc' = "exited"
                /\ UNCHANGED <<args, stderr>>
           [] r.kind = "Error" ->
                /\ stderr' = Append(stderr, UsageError)
                /\ exit_code' = ExitUsage
                /\ pc' = "exited"
                /\ UNCHANGED <<args, stdout>>
    /\ UNCHANGED <<build, argv, standard_font, figure, prev>>

\* line 11 as it would be with a second font tried when the first fails.
StandardFallback ==
    /\ pc = "standard"
    /\ calls' = Append(calls, Call("standard", Empty))
    /\ standard_font' = IF fontLoads THEN Some("standard") ELSE Some("fallback")
    /\ pc' = "convert"
    /\ UNCHANGED <<build, argv, args, figure, stdout, stderr, exit_code, prev>>

\* line 11: let standard_font = FIGfont::standard().unwrap();
Standard ==
    /\ pc = "standard"
    /\ calls' = Append(calls, Call("standard", Empty))
    /\ IF fontLoads
       THEN /\ standard_font' = Some("standard")
            /\ pc' = "convert"
            /\ UNCHANGED <<stdout, stderr, exit_code>>
       ELSE /\ Panic
            /\ UNCHANGED standard_font
    /\ UNCHANGED <<build, argv, args, figure, prev>>

\* line 12 as it would be were the font loaded once more for the rendering.
ConvertReloads ==
    /\ pc = "convert"
    /\ calls' = calls \o <<Call("standard", Empty),
                           Call("convert", args.val.message)>>
    /\ figure' = IF args.val.message \in convertible
                 THEN Some(Figure(args.val.message))
                 ELSE None
    /\ pc' = "println"
    /\ UNCHANGED <<build, argv, args, standard_font, stdout, stderr,
                   exit_code, prev>>

\* line 12: let figure = standard_font.convert(args.message.as_str());
Convert ==
    /\ pc = "convert"
    /\ calls' = Append(calls, Call("convert", args.val.message))
    /\ figure' = IF args.val.message \in convertible
                 THEN Some(Figure(args.val.message))
                 ELSE None
    /\ pc' = "println"
    /\ UNCHANGED <<build, argv, args, standard_font, stdout, stderr,
                   exit_code, prev>>

\* line 13 as it would be with print! in place of println!.
PrintNoNewline ==
    /\ pc = "println"
    /\ IF figure.some
       THEN /\ stdout' = Append(stdout, figure.val)
            /\ calls' = Append(calls, Call("println", figure.val.of))
            /\ exit_code' = ExitSuccess
            /\ pc' = "exited"
            /\ UNCHANGED stderr
       ELSE /\ Panic
            /\ UNCHANGED calls
    /\ UNCHANGED <<build, argv, args, standard_font, figure, prev>>

\* line 13 as it would be with unwrap_or_default(): a failed rendering
\* prints an empty line and the run succeeds.
PrintlnOrDefault ==
    /\ pc = "println"
    /\ stdout' = IF figure.some
                 THEN stdout \o <<figure.val, Newline>>
                 ELSE Append(stdout, Newline)
    /\ calls' = IF figure.some
                THEN Append(calls, Call("println", figure.val.of))
                ELSE calls
    /\ exit_code' = ExitSuccess
    /\ pc' = "exited"
    /\ UNCHANGED <<build, argv, args, standard_font, figure, stderr, prev>>

\* line 13 as it would be were a failed rendering asked for again.
PrintlnRetries ==
    /\ pc = "println"
    /\ IF figure.some
       THEN /\ stdout' = stdout \o <<figure.val, Newline>>
            /\ calls' = Append(calls, Call("println", figure.val.of))
            /\ exit_code' = ExitSuccess
            /\ pc' = "exited"
       ELSE /\ pc' = "convert"
            /\ UNCHANGED <<stdout, calls, exit_code>>
    /\ UNCHANGED <<build, argv, args, standard_font, figure, stderr, prev>>

\* line 13: println!("{}", figure.unwrap());  then main returns (line 14).
\* unwrap() is evaluated before anything is written; standard output is
\* taken to accept the write.
Println ==
    /\ pc = "println"
    /\ IF figure.some
       THEN /\ stdout' = stdout \o <<figure.val, Newline>>
            /\ calls' = Append(calls, Call("println", figure.val.of))
            /\ exit_code' = ExitSuccess
            /\ pc' = "exited"
            /\ UNCHANGED stderr
       ELSE /\ Panic
            /\ UNCHANGED calls
    /\ UNCHANGED <<build, argv, args, standard_font, figure, prev>>

\* A new run as it would be were the output kept from one run to the next.
StartRunKeepsOutput ==
    /\ pc = "exited"
    /\ \E a \in Argvs :
         /\ prev' = IF a = argv
                    THEN Some([stdout |-> stdout, stderr |-> stderr,
                               exit_code |-> exit_code])
                    ELSE None
         /\ argv' = main(a).argv
         /\ pc' = main(a).pc
         /\ args' = main(a).args
         /\ standard_font' = main(a).standard_font
         /\ figure' = main(a).figure
         /\ stderr' = main(a).stderr
         /\ exit_code' = main(a).exit_code
         /\ calls' = main(a).calls
    /\ UNCHANGED <<build, stdout>>

\* The program is invoked again: a new process, with its own command line.
StartRun ==
    /\ pc = "exited"
    /\ \E a \in Argvs :
         /\ prev' = IF a = argv
                    THEN Some([stdout |-> stdout, stderr |-> stderr,
                               exit_code |-> exit_code])
                    ELSE None
         /\ argv' = main(a).argv
         /\ pc' = main(a).pc
         /\ args' = main(a).args
         /\ standard_font' = main(a).standard_font
         /\ figure' = main(a).figure
         /\ stdout' = main(a).stdout
         /\ stderr' = main(a).stderr
         /\ exit_code' = main(a).exit_code
         /\ calls' = main(a).calls
    /\ UNCHANGED build

Step == Parse \/ Standard \/ Convert \/ Println

Next == Step \/ StartRun

Spec == Init /\ [][Next]_vars

\* main runs to its end without waiting for anything.
FairSpec == Spec /\ WF_vars(Step)

\* ------------------------------------------------ vocabulary of the claims
\* The operations this process has performed, in order.
Ops == [i \in 1..Len(calls) |-> calls[i].op]

Count(op) == Cardinality({i \in 1..Len(calls) : calls[i].op = op})

Called(op) == Count(op) > 0

\* The rendered blocks on standard output.
Blocks == {i \in 1..Len(stdout) : IsFigure(stdout[i])}

\* The place of the first `--` on the command line, past its end if none.
EndOfFlags(a) ==
    IF \E i \in 1..Len(a) : a[i] = DashDash
    THEN CHOOSE i \in 1..Len(a) :
           a[i] = DashDash /\ \A j \in 1..(i - 1) : a[j] # DashDash
    ELSE Len(a) + 1

\* The places of the command line that hold a positional argument.
PositionalAt(a) ==
    {i \in 1..Len(a) : i > EndOfFlags(a) \/ (i < EndOfFlags(a) /\ ~IsFlag(a[i]))}

HelpAsked(a) == \E i \in 1..Len(a) : i < EndOfFlags(a) /\ a[i] \in HelpFlags

Exited == pc = "exited"

LoadFailed == Called("standard") /\ ~fontLoads

RenderFailed == Called("convert") /\ ~figure.some

MainOrder == <<"parse", "standard", "convert", "println">>

\* ----------------------------------------------------------------- C2
\* C2 as stated: a run whose command line holds no positional argument ends
\* with a non-zero exit status, never loads the font, never renders and
\* never prints a rendered block.
C2_NoPositionalExitsNonZero ==
    (PositionalAt(argv) = {}) =>
        /\ Ops \in {<<>>, <<"parse">>}
        /\ Blocks = {}
        /\ Exited => exit_code # ExitSuccess

\* C2 amended: a run whose command line holds no positional argument and
\* does not ask for help (-h, --help) ends with a non-zero exit status and
\* a diagnostic on standard error; parsing fails before the font is loaded,
\* so nothing is rendered and nothing at all is written to standard output.
C2_NoPositionalNoHelpExitsNonZero ==
    (PositionalAt(argv) = {} /\ ~HelpAsked(argv)) =>
        /\ Ops \in {<<>>, <<"parse">>}
        /\ ~args.some /\ ~standard_font.some /\ ~figure.some
        /\ stdout = <<>>
        /\ Exited => exit_code = ExitUsage /\ stderr = <<UsageError>>

C2_Witness ==
    /\ argv = <<>>
    /\ Exited
    /\ exit_code = ExitUsage
    /\ Ops = <<"parse">>

\* ----------------------------------------------------------------- C3
\* C3: once loading the font or rendering the message has failed, nothing
\* is (or gets) written to standard output, the font was asked for once and
\* the rendering at most once, no font is held after a failed load and no
\* rendering is asked of one, and the run, once over, has ended by a panic:
\* non-zero status and a diagnostic on standard error.
C3_FailureIsFatal ==
    (LoadFailed \/ RenderFailed) =>
        /\ stdout = <<>>
        /\ Count("standard") = 1
        /\ Count("convert") <= 1
        /\ Count("println") = 0
        /\ LoadFailed => Exited /\ ~standard_font.some /\ ~Called("convert")
        /\ pc \in {"println", "exited"}
        /\ Exited => exit_code = ExitPanic /\ stderr = <<PanicMessage>>

C3_Witness ==
    /\ RenderFailed
    /\ Exited
    /\ exit_code = ExitPanic

C6_ExitZeroHasOneBlock ==
    /\ Cardinality(Blocks) <= 1
    /\ ~Exited => Blocks = {}
    /\ (Exited /\ exit_code = ExitSuccess) =>
           \E m \in Messages : stdout = <<Figure(m), Newline>>
    /\ (Exited /\ exit_code # ExitSuccess) => Blocks = {}

\* C6 amended: a run that exits with code 0 after parsing a message has
\* exactly the rendered block of that message followed by a newline on
\* standard output; a run that exits with code 0 without a message is a help
\* request and has the help text and no block; a run that exits with another
\* status has written nothing; no run holds more than one block or holds one
\* before it has succeeded.
C6_ParsedExitZeroHasOneBlock ==
    /\ Cardinality(Blocks) <= 1
    /\ ~Exited => stdout = <<>>
    /\ (Exited /\ exit_code = ExitSuccess /\ args.some) =>
           stdout = <<Figure(args.val.message), Newline>>
    /\ (Exited /\ exit_code = ExitSuccess /\ ~args.some) =>
           HelpAsked(argv) /\ stdout = <<HelpText>>
    /\ (Exited /\ exit_code # ExitSuccess) => stdout = <<>>

C6_Witness ==
    /\ Exited
    /\ exit_code = ExitSuccess
    /\ stdout = <<Figure(HI), Newline>>

\* ----------------------------------------------------------------- C7
\* C7: a run whose message is the empty string ends either with status 0
\* and the rendering of the empty message on standard output, or by a panic
\* with nothing on standard output; which of the two is fixed by the font
\* library, and a run after one with the same command line ends the same.
C7_EmptyMessageOutcome ==
    (Exited /\ args.some /\ args.val.message = Empty) =>
        /\ \/ /\ exit_code = ExitSuccess
              /\ stdout = <<Figure(Empty), Newline>>
              /\ stderr = <<>>
           \/ /\ exit_code = ExitPanic
              /\ stdout = <<>>
              /\ stderr = <<PanicMessage>>
        /\ exit_code = ExitSuccess <=> (fontLoads /\ Empty \in convertible)
        /\ prev.some =>
              exit_code = prev.val.exit_code /\ stdout = prev.val.stdout

C7_Witness ==
    /\ Exited
    /\ argv = <<Empty>>
    /\ args = Some([message |-> Empty])
    /\ RenderFailed
    /\ prev.some

\* ----------------------------------------------------------------- C8
\* C8: every run reaches its exit, after at most the four steps of main;
\* the exit status is set when the run exits and not before, and a process
\* that has exited takes no further step: the only thing that follows is a
\* new process.
C8_EveryRunTerminates ==
    /\ (~Exited) ~> Exited
    /\ [](Len(calls) <= Len(MainOrder))
    /\ [](Exited <=> exit_code # Running)
    /\ [][Exited => (pc' = "parse" /\ calls' = <<>> /\ stdout' = <<>>
                     /\ exit_code' = Running)]_vars

C8_Witness ==
    /\ Exited
    /\ Ops = MainOrder
    /\ exit_code = ExitSuccess

\* ----------------------------------------------------------------- C9
\* C9: the text given to the renderer is the one positional argument of the
\* command line, character for character, and the block printed is the
\* rendering of that text; a step of a run leaves the command line, the
\* parsed message, the loaded font and the font library as they are.
C9_MessagePassedAsGiven ==
    /\ [](\A i \in 1..Len(calls) :
            calls[i].op \in {"convert", "println"} =>
                /\ Cardinality(PositionalAt(argv)) = 1
                /\ \A j \in PositionalAt(argv) : calls[i].arg = argv[j]
                /\ args = Some([message |-> calls[i].arg]))
    /\ [][/\ build' = build
          /\ ~Exited => argv' = argv
          /\ (~Exited /\ args.some) => args' = args
          /\ (~Exited /\ standard_font.some) => standard_font' = standard_font
         ]_vars

C9_Witness ==
    /\ Exited
    /\ argv = <<DashDash, DashX>>
    /\ Ops = MainOrder
    /\ calls[3] = Call("convert", DashX)
    /\ stdout = <<Figure(DashX), Newline>>

\* ---------------------------------------------------------------- C10
\* C10: the operations of a run are an initial part of parse, load font,
\* render, print, each done at most once; the font is asked for only with a
\* parsed message, the rendering only with a loaded font, and the block is
\* printed only with a rendering that succeeded.
C10_FixedOrder ==
    /\ Len(Ops) <= Len(MainOrder)
    /\ Ops = SubSeq(MainOrder, 1, Len(Ops))
    /\ Called("standard") => args.some
    /\ Called("convert") => standard_font.some
    /\ Called("println") => figure.some /\ Exited

C10_Witness ==
    /\ Ops = MainOrder
    /\ standard_font.some
    /\ figure.some

====
